---- MODULE Spec2Model ----
(***************************************************************************)
(* Evacuation simulation of src/main.py (MonitorAgent, EvacAgent,          *)
(* GridModel) driven by the loop of src/run_simulations.py.                *)
(*                                                                         *)
(* One GridModel.step is split at the points between two evacuee steps:    *)
(* BeginStep is monitor.step() followed by the snapshot                    *)
(* list(self.active_agents); one action per branch of EvacAgent.step runs  *)
(* the whole step of the next evacuee of the snapshot; EndStep is the end  *)
(* of the for loop and the driver's steps += 1.                            *)
(*                                                                         *)
(* time.time() is the variable clock.  It starts at StartTime, an epoch    *)
(* value, and ClockAdvance moves it ClockQuantum seconds forward between   *)
(* any two steps.  Inside one evacuee step the reads of lines 195 and 139  *)
(* see the value at the start of the step (time passing before them is a   *)
(* ClockAdvance before the step: a follow that has timed out stays timed   *)
(* out); the read of line 232 comes after the scan of ask_neighbors and    *)
(* may see a later value, which HelpFollowStep chooses.                    *)
(* random.choice is a nondeterministic choice.  An uncaught exception sets *)
(* error and ends the run.                                                 *)
(*                                                                         *)
(* The grid is mesa's MultiGrid: a cell's contents are the evacuees whose  *)
(* pos is that cell and the exit marker placed there, if any.              *)
(*                                                                         *)
(* model.running is never assigned in src/main.py, so the driver's loop    *)
(* goes on calling model.step() after the pool has emptied and ends only   *)
(* at the tick cap.  get_evacuation_steps, which the driver calls after    *)
(* the loop, and the exit_positions parameter it passes to the constructor *)
(* are not in src/main.py; they are modelled from the specification.       *)
(*                                                                         *)
(* Spec is the program as src/main.py constructs it: two corner exits and  *)
(* NumAgents evacuees on any distinct empty cells of a grid of GridSize,   *)
(* stepped by the driver's loop up to MaxSteps ticks.  grid_size and       *)
(* max_steps are the arguments of the run.  SpecWide adds the runs of      *)
(* GridModel(grid_size=WideGridSize, emergency_time=0), a grid on which    *)
(* two evacuees can be out of asking range of each other, for              *)
(* WideMaxSteps ticks.  SpecCrowd is GridModel(grid_size=CrowdGridSize)    *)
(* with NUM_AGENTS = CrowdAgents, a grid on which every cell sees a corner *)
(* exit, for ShortMaxSteps ticks.  Two specifications start from           *)
(* configurations that need the constructor parameter of the               *)
(* specification: SpecNoExits (no exit, grid of SmallGridSize,             *)
(* ShortMaxSteps ticks) and SpecOnExit (a single evacuee standing on an    *)
(* exit cell).  Every start places the evacuees on any distinct empty      *)
(* cells, as random.choice does.                                           *)
(***************************************************************************)
EXTENDS Integers, Sequences, FiniteSets, TLC

\* ---------------------------------------------------------------- bounds
GridSize == 5
NumAgents == 2
MaxSteps == 4
MaxElapsed == 12
MaxEmergencyTime == 1
ClockQuantum == 3
ShortMaxSteps == 2
WideMaxSteps == 1
SmallGridSize == 3

\* ------------------------------------------------------ program constants
StartTime == 1700000000
VisibleRadius == 3
AskRadius == 5
FollowRange == 5
COOLDOWN == 3
FollowTimeout == 10
NeverAsked == 0
NoAgent == 0

\* the evacuee ids: NUM_AGENTS evacuees are created, CrowdAgents in the
\* crowded start; an id that is not created is never on the grid or in the pool
CrowdAgents == NumAgents + 1
Agents == 1..CrowdAgents
NoPos == <<>>
NoDir == <<0, 0>>
directions == << <<0, 1>>, <<0, -1>>, <<1, 0>>, <<-1, 0>> >>

VARIABLES
    grid_size,          \* the grid_size the model was constructed with
    max_steps,          \* the max_steps the driver's loop was called with
    exits,              \* model.exits: positions of the ExitAgents, in list order
    emergency_time,     \* monitor.emergency_time
    clock,              \* the value time.time() returns
    monitor_triggered,  \* monitor.emergency_triggered
    emergency,          \* model.emergency
    active_agents,      \* model.active_agents (ordered list)
    pos,                \* agent.pos, NoPos once removed from the grid
    emergency_triggered,\* agent.emergency_triggered
    direction,          \* agent.direction
    state,              \* agent.state
    following_agent,    \* agent.following_agent
    follow_start_time,  \* agent.follow_start_time
    asked_memory,       \* agent.asked_memory
    pc,                 \* "idle", "stepping", "done"
    snapshot,           \* list(self.active_agents) of the tick in progress
    idx,                \* position of the for loop in the iterated list
    steps,              \* the driver's steps
    evac_steps,         \* <<>> while unset, <<n>> once the pool became empty
    error,              \* an exception left EvacAgent.step
    stepped,            \* history: evacuees whose step ran in this tick
    follow_pool         \* history: the pool at the last HELP->FOLLOWING

vars == <<grid_size, max_steps, exits, emergency_time, clock, monitor_triggered, emergency,
          active_agents, pos, emergency_triggered, direction, state,
          following_agent, follow_start_time, asked_memory, pc, snapshot,
          idx, steps, evac_steps, error, stepped, follow_pool>>

\* the cells of MultiGrid(grid_size, grid_size) and the exits of line 248
Cells == {<<x, y>> : x \in 0..(grid_size - 1), y \in 0..(grid_size - 1)}
exit_positions == << <<0, 0>>, <<grid_size - 1, grid_size - 1>> >>

\* ---------------------------------------------------------------- helpers
Abs(n) == IF n < 0 THEN -n ELSE n
Range(s) == {s[i] : i \in 1..Len(s)}
Manhattan(p, q) == Abs(p[1] - q[1]) + Abs(p[2] - q[2])

\* Python's min(s, key=...): the first index at which the keys, given as the
\* sequence d, are minimal
ArgMinFirst(d) ==
    CHOOSE i \in 1..Len(d) :
        \A j \in 1..Len(d) : d[i] <= d[j] /\ (j < i => d[j] > d[i])

\* ------------------------------------------------------- grid (MultiGrid)
\* faulty variant: the upper bounds tested with > instead of >=
out_of_boundsOffByOne(p) ==
    p[1] < 0 \/ p[1] > grid_size \/ p[2] < 0 \/ p[2] > grid_size

out_of_bounds(p) ==
    p[1] < 0 \/ p[1] >= grid_size \/ p[2] < 0 \/ p[2] >= grid_size

is_exit_cell(c) == \E i \in 1..Len(exits) : exits[i] = c

AgentsAt(c) == {a \in Agents : pos[a] = c}

\* faulty variant: the exit marker does not count as a cell's contents
CellEmptyIgnoringExits(c) == AgentsAt(c) = {}

\* faulty variant: only the exit marker counts as a cell's contents
CellEmptyIgnoringAgents(c) == ~is_exit_cell(c)

\* len(grid.get_cell_list_contents(c)) == 0: no evacuee and no exit marker
CellEmpty(c) == AgentsAt(c) = {} /\ ~is_exit_cell(c)


\* ------------------------------------------------------------- EvacAgent
\* exits inside the bounding box of the given radius, in model.exits order
get_visible_exits(p) ==
    SelectSeq(exits, LAMBDA e : Abs(e[1] - p[1]) <= VisibleRadius
                                /\ Abs(e[2] - p[2]) <= VisibleRadius)

closest_exit(p, exs) == exs[ArgMinFirst([i \in 1..Len(exs) |-> Manhattan(exs[i], p)])]

\* up to two candidate cells, the x candidate before the y candidate
move_options(p, t) ==
    (IF t[1] # p[1] THEN << <<p[1] + (IF t[1] > p[1] THEN 1 ELSE -1), p[2]>> >> ELSE <<>>)
    \o
    (IF t[2] # p[2] THEN << <<p[1], p[2] + (IF t[2] > p[2] THEN 1 ELSE -1)>> >> ELSE <<>>)

\* faulty variant: a candidate that is an exit cell is not entered
move_towardsEmptyOnly(p, t) ==
    LET opts == move_options(p, t)
        ok(c) == ~out_of_bounds(c) /\ CellEmpty(c)
        good == SelectSeq(opts, ok)
    IN  IF good = <<>> THEN NoPos ELSE good[1]

\* the cell move_towards moves to, NoPos when it returns False
move_towards(p, t) ==
    LET opts == move_options(p, t)
        ok(c) == ~out_of_bounds(c) /\ (CellEmpty(c) \/ is_exit_cell(c))
        good == SelectSeq(opts, ok)
    IN  IF good = <<>> THEN NoPos ELSE good[1]

\* faulty variant: the neighbours are not tested for occupants
best_free_step_towards_exitAnyNeighbour(p, t) ==
    LET neighbors == << <<p[1] + 1, p[2]>>, <<p[1] - 1, p[2]>>,
                        <<p[1], p[2] + 1>>, <<p[1], p[2] - 1>> >>
        free(c) == ~out_of_bounds(c)
        free_neighbors == SelectSeq(neighbors, free)
    IN  IF free_neighbors = <<>> THEN NoPos
        ELSE free_neighbors[ArgMinFirst([i \in 1..Len(free_neighbors) |->
                                             Manhattan(free_neighbors[i], t)])]

\* the cell of the fallback step, NoPos when every neighbour is blocked
best_free_step_towards_exit(p, t) ==
    LET neighbors == << <<p[1] + 1, p[2]>>, <<p[1] - 1, p[2]>>,
                        <<p[1], p[2] + 1>>, <<p[1], p[2] - 1>> >>
        free(c) == ~out_of_bounds(c) /\ CellEmpty(c)
        free_neighbors == SelectSeq(neighbors, free)
    IN  IF free_neighbors = <<>> THEN NoPos
        ELSE free_neighbors[ArgMinFirst([i \in 1..Len(free_neighbors) |->
                                             Manhattan(free_neighbors[i], t)])]

\* faulty variant: append where remove is meant
PoolAppend(pool, a) == Append(pool, a)

\* list.remove(a): the list without its first occurrence of a
PoolRemove(pool, a) ==
    IF a \notin Range(pool) THEN pool
    ELSE LET k == CHOOSE i \in 1..Len(pool) : pool[i] = a /\ \A j \in 1..(i - 1) : pool[j] # a
         IN  SubSeq(pool, 1, k - 1) \o SubSeq(pool, k + 1, Len(pool))

\* check_exit after grid.move_agent(a, c): on an exit cell the evacuee leaves
\* the grid (pos None) and the active pool at once
check_exit(c) == is_exit_cell(c)

PosAfterMove(a, c) == [pos EXCEPT ![a] = IF check_exit(c) THEN NoPos ELSE c]
\* faulty variant: the evacuee leaves the grid but stays in the active pool
PoolAfterMoveKept(a, c) == active_agents

\* active_agents after check_exit
PoolAfterMove(a, c) == IF check_exit(c) THEN PoolRemove(active_agents, a) ELSE active_agents

\* grid.get_neighbors(pos, moore=True, radius, include_center=False): the
\* occupants of the cells of the clipped square, x ascending then y ascending
NeighborKey(b) == (pos[b][1] * grid_size + pos[b][2]) * (CrowdAgents + 1) + b

RECURSIVE InKeyOrder(_)
InKeyOrder(S) ==
    IF S = {} THEN <<>>
    ELSE LET m == CHOOSE b \in S : \A c \in S : NeighborKey(b) <= NeighborKey(c)
         IN  <<m>> \o InKeyOrder(S \ {m})

\* faulty variant: the whole grid is searched, whatever the distance
get_neighborsAnyDistance(a) ==
    InKeyOrder({b \in Agents : /\ pos[b] # NoPos
                               /\ ~out_of_bounds(pos[b])
                               /\ pos[b] # pos[a]})

get_neighbors(a) ==
    InKeyOrder({b \in Agents : /\ pos[b] # NoPos
                               /\ ~out_of_bounds(pos[b])
                               /\ pos[b] # pos[a]
                               /\ Abs(pos[b][1] - pos[a][1]) <= AskRadius
                               /\ Abs(pos[b][2] - pos[a][2]) <= AskRadius})

\* faulty variant: a neighbour never asked counts as asked just now
MemGetDefaultNow(mem, n) == IF n \in DOMAIN mem THEN mem[n] ELSE clock

\* asked_memory.get(neighbor, 0)
MemGet(mem, n) == IF n \in DOMAIN mem THEN mem[n] ELSE NeverAsked
MemPut(mem, n, t) == [x \in (DOMAIN mem) \cup {n} |-> IF x = n THEN t ELSE mem[x]]

\* faulty variant: any neighbour that answers is taken as a guide
HasVisibleExitsAlways(n) == TRUE

\* `if neighbor.get_visible_exits()`: the asked neighbour sees an exit
HasVisibleExits(n) == get_visible_exits(pos[n]) # <<>>

\* the for loop of ask_neighbors from neighbour i on: the guide (NoAgent for
\* None) and asked_memory as the loop leaves it
RECURSIVE AskScan(_, _, _)
AskScan(nbrs, i, mem) ==
    IF i > Len(nbrs) THEN [guide |-> NoAgent, mem |-> mem]
    ELSE LET n == nbrs[i]
         IN  IF n \in Range(active_agents) /\ clock - MemGet(mem, n) > COOLDOWN
             THEN IF HasVisibleExits(n)
                  THEN [guide |-> n, mem |-> MemPut(mem, n, clock)]
                  ELSE AskScan(nbrs, i + 1, MemPut(mem, n, clock))
             ELSE AskScan(nbrs, i + 1, mem)

ask_neighbors(a) == AskScan(get_neighbors(a), 1, asked_memory[a])

\* EvacAgent.step lines 187-200: state and following_agent before dispatch
VisibleOf(a) == get_visible_exits(pos[a])

\* faulty variant: a follower keeps following although it sees an exit
StateAfterExitsUnlessFollowing(a) ==
    IF VisibleOf(a) # <<>> /\ state[a] # "FOLLOWING" THEN "EVACUATING" ELSE state[a]

StateAfterExits(a) == IF VisibleOf(a) # <<>> THEN "EVACUATING" ELSE state[a]
TargetAfterExits(a) == IF VisibleOf(a) # <<>> THEN NoAgent ELSE following_agent[a]
\* faulty variant: only the timeout ends a follow, a guide that left does not
FollowExpiredTimeoutOnly(a) == clock - follow_start_time[a] > FollowTimeout

\* lines 194-200: the follow has timed out or the guide has left the pool
FollowExpired(a) ==
    \/ clock - follow_start_time[a] > FollowTimeout
    \/ TargetAfterExits(a) \notin Range(active_agents)
DispatchState(a) ==
    IF StateAfterExits(a) = "FOLLOWING" /\ FollowExpired(a) THEN "HELP" ELSE StateAfterExits(a)
DispatchTarget(a) ==
    IF StateAfterExits(a) = "FOLLOWING" /\ FollowExpired(a) THEN NoAgent ELSE TargetAfterExits(a)


\* ------------------------------------------------------------ time.time()
\* the values the clock takes during a run, ClockQuantum seconds apart
Times ==
    {StartTime + k * ClockQuantum :
        k \in 0..((MaxElapsed + ClockQuantum - 1) \div ClockQuantum)}

\* what a read of time.time() can return when an earlier read returned t
Later(t) == {u \in Times : u >= t}

\* ---------------------------------------------------------- MonitorAgent
MonitorFires == ~monitor_triggered /\ clock - StartTime >= emergency_time

\* faulty variant: the sweep stops after the first evacuee
NotifiedFirstOnly(pool) == IF pool = <<>> THEN {} ELSE {pool[1]}

\* the evacuees the sweep "for agent in self.model.active_agents" reaches
Notified(pool) == Range(pool)

\* ------------------------------------------------- GridModel and the driver
\* model.running: Model.__init__ (line 238) sets it and src/main.py never
\* assigns it, so the driver's test of it holds in every state, also after
\* the pool has emptied
running == TRUE

\* faulty variant: every evacuee ever created, not the active ones
AllCreatedAgents == [i \in 1..NumAgents |-> i]

\* list(self.active_agents), taken when GridModel.step starts its for loop
TakeSnapshot == active_agents

\* faulty variant: the loop walks the live list, not a copy
IterListLive == active_agents

\* the list the for loop of GridModel.step walks: the snapshot
IterList == snapshot

LoopMore == idx <= Len(IterList)
Current == IterList[idx]

Injective(f) == \A a, b \in Agents : (a # b /\ f[a] # NoPos) => f[a] # f[b]

\* the ways to place the evacuees 1..n on distinct cells of a set
Placements(n, cells) ==
    {f \in [Agents -> cells \cup {NoPos}] :
        /\ \A a \in Agents : a <= n <=> f[a] # NoPos
        /\ Injective(f)}

Init ==
    /\ grid_size = GridSize
    /\ max_steps = MaxSteps
    /\ exits = exit_positions
    /\ emergency_time \in 0..MaxEmergencyTime
    /\ clock = StartTime
    /\ monitor_triggered = FALSE
    /\ emergency = FALSE
    /\ active_agents = [i \in 1..NumAgents |-> i]
    /\ pos \in Placements(NumAgents, Cells \ Range(exit_positions))
    /\ emergency_triggered = [a \in Agents |-> FALSE]
    /\ direction = [a \in Agents |-> NoDir]
    /\ state = [a \in Agents |-> "HELP"]
    /\ following_agent = [a \in Agents |-> NoAgent]
    /\ follow_start_time = [a \in Agents |-> 0]
    /\ asked_memory = [a \in Agents |-> <<>>]
    /\ pc = "idle"
    /\ snapshot = <<>>
    /\ idx = 1
    /\ steps = 0
    /\ evac_steps = <<>>
    /\ error = FALSE
    /\ stepped = <<>>
    /\ follow_pool = [a \in Agents |-> <<>>]

\* the driver enters model.step(): monitor.step(), then the snapshot, which
\* is empty once the pool is
BeginStep ==
    /\ pc = "idle" /\ ~error
    /\ running /\ steps < max_steps
    /\ monitor_triggered' = (monitor_triggered \/ MonitorFires)
    /\ emergency' = (emergency \/ MonitorFires)
    /\ emergency_triggered' =
          [a \in Agents |-> IF MonitorFires /\ a \in Notified(active_agents)
                            THEN TRUE ELSE emergency_triggered[a]]
    /\ snapshot' = TakeSnapshot
    /\ idx' = 1
    /\ pc' = "stepping"
    /\ stepped' = <<>>
    /\ UNCHANGED <<grid_size, max_steps, exits, emergency_time, clock, active_agents, pos,
                   direction, state, following_agent, follow_start_time,
                   asked_memory, steps,
                   evac_steps, error, follow_pool>>

\* what every evacuee step shares: it is the step of the next entry of the list
StepOf(a) ==
    /\ pc = "stepping" /\ ~error
    /\ LoopMore /\ a = Current
    /\ idx' = idx + 1
    /\ stepped' = Append(stepped, a)
    /\ UNCHANGED <<grid_size, max_steps, exits, emergency_time, monitor_triggered, emergency,
                   emergency_triggered, pc, snapshot, steps, evac_steps>>

\* lines 174-185: before the emergency, a step to a random empty neighbour
WanderStep(a) ==
    /\ StepOf(a)
    /\ ~emergency_triggered[a]
    /\ LET valid == {c \in Cells : Manhattan(c, pos[a]) = 1 /\ CellEmpty(c)}
       IN  IF valid # {} THEN \E c \in valid : pos' = [pos EXCEPT ![a] = c]
           ELSE pos' = pos
    /\ UNCHANGED <<clock, active_agents, direction, state, following_agent,
                   follow_start_time, asked_memory, error, follow_pool>>

\* lines 203-212: greedy move to the closest visible exit, else the fallback
EvacuateStep(a) ==
    /\ StepOf(a)
    /\ emergency_triggered[a]
    /\ DispatchState(a) = "EVACUATING"
    /\ VisibleOf(a) # <<>>
    /\ state' = [state EXCEPT ![a] = "EVACUATING"]
    /\ following_agent' = [following_agent EXCEPT ![a] = DispatchTarget(a)]
    /\ LET t == closest_exit(pos[a], VisibleOf(a))
           c == move_towards(pos[a], t)
           f == best_free_step_towards_exit(pos[a], t)
           dest == IF c # NoPos THEN c ELSE f
       IN  IF dest # NoPos
           THEN /\ pos' = PosAfterMove(a, dest)
                /\ active_agents' = PoolAfterMove(a, dest)
           ELSE UNCHANGED <<pos, active_agents>>
    /\ UNCHANGED <<clock, direction, follow_start_time, asked_memory, error,
                   follow_pool>>

\* line 204 with no exit in sight: min() of an empty list raises ValueError
EvacuateError(a) ==
    /\ StepOf(a)
    /\ emergency_triggered[a]
    /\ DispatchState(a) = "EVACUATING"
    /\ VisibleOf(a) = <<>>
    /\ error' = TRUE
    /\ UNCHANGED <<clock, active_agents, pos, direction, state, following_agent,
                   follow_start_time, asked_memory, follow_pool>>

\* lines 217-223: move toward the guide, or give up when it is too far
FollowStep(a) ==
    /\ StepOf(a)
    /\ emergency_triggered[a]
    /\ DispatchState(a) = "FOLLOWING"
    /\ LET g == DispatchTarget(a)
       IN  /\ following_agent' = [following_agent EXCEPT ![a] = g]
           /\ IF g # NoAgent /\ pos[g] # NoPos
              THEN IF Manhattan(pos[g], pos[a]) <= FollowRange
                   THEN LET c == move_towards(pos[a], pos[g])
                        IN  /\ state' = [state EXCEPT ![a] = "FOLLOWING"]
                            /\ IF c # NoPos
                               THEN /\ pos' = PosAfterMove(a, c)
                                    /\ active_agents' = PoolAfterMove(a, c)
                               ELSE UNCHANGED <<pos, active_agents>>
                   ELSE /\ state' = [state EXCEPT ![a] = "HELP"]
                        /\ UNCHANGED <<pos, active_agents>>
              ELSE /\ state' = [state EXCEPT ![a] = "FOLLOWING"]
                   /\ UNCHANGED <<pos, active_agents>>
    /\ UNCHANGED <<clock, direction, follow_start_time, asked_memory, error,
                   follow_pool>>

\* faulty variant: the None test on the guide is missing
GuideFoundAlways(g) == TRUE

\* line 229, "if guide:"
GuideFound(g) == g # NoAgent

\* lines 226-232: a neighbour that sees an exit becomes the guide; the scan
\* stamps asked_memory with the read of line 139, follow_start_time is the
\* later read of line 232
HelpFollowStep(a) ==
    /\ StepOf(a)
    /\ emergency_triggered[a]
    /\ DispatchState(a) = "HELP"
    /\ LET r == ask_neighbors(a)
       IN  /\ GuideFound(r.guide)
           /\ asked_memory' = [asked_memory EXCEPT ![a] = r.mem]
           /\ state' = [state EXCEPT ![a] = "FOLLOWING"]
           /\ following_agent' = [following_agent EXCEPT ![a] = r.guide]
           /\ \E t \in Later(clock) :
                 /\ follow_start_time' = [follow_start_time EXCEPT ![a] = t]
                 /\ clock' = t
           /\ follow_pool' = [follow_pool EXCEPT ![a] = active_agents]
    /\ UNCHANGED <<active_agents, pos, direction, error>>

\* lines 233-234 and do_random_constant_move: no guide, keep walking
HelpWanderStep(a) ==
    /\ StepOf(a)
    /\ emergency_triggered[a]
    /\ DispatchState(a) = "HELP"
    /\ LET r == ask_neighbors(a)
       IN  /\ ~GuideFound(r.guide)
           /\ asked_memory' = [asked_memory EXCEPT ![a] = r.mem]
    /\ state' = [state EXCEPT ![a] = "HELP"]
    /\ following_agent' = [following_agent EXCEPT ![a] = DispatchTarget(a)]
    /\ \E d0 \in Range(directions), d1 \in Range(directions) :
          LET d == IF direction[a] = NoDir THEN d0 ELSE direction[a]
              target == <<pos[a][1] + d[1], pos[a][2] + d[2]>>
              moved == ~out_of_bounds(target) /\ CellEmpty(target)
          IN  /\ pos' = IF moved THEN [pos EXCEPT ![a] = target] ELSE pos
              /\ direction' = [direction EXCEPT ![a] = IF moved THEN d ELSE d1]
    /\ UNCHANGED <<clock, active_agents, follow_start_time, error, follow_pool>>

\* spec-modelled: get_evacuation_steps() is the tick count at which the pool
\* became empty, unset (<<>>) until then; n is the tick counter when the
\* evacuee steps of a tick are over, before its increment, so that ticks are
\* counted from 0
get_evacuation_steps(n) ==
    IF evac_steps = <<>> /\ active_agents = <<>> THEN <<n>> ELSE evac_steps

\* the for loop is exhausted: model.step() returns and the driver counts it
EndStep ==
    /\ pc = "stepping" /\ ~error
    /\ ~LoopMore
    /\ pc' = "idle"
    /\ steps' = steps + 1
    /\ evac_steps' = get_evacuation_steps(steps)
    /\ UNCHANGED <<grid_size, max_steps, exits, emergency_time, clock, monitor_triggered, emergency,
                   active_agents, pos, emergency_triggered, direction, state,
                   following_agent, follow_start_time, asked_memory, snapshot, idx,
                   error, stepped, follow_pool>>

\* the while loop of run_one_simulation ends: its test fails at the cap
Finish ==
    /\ pc = "idle" /\ ~error
    /\ ~(running /\ steps < max_steps)
    /\ pc' = "done"
    /\ UNCHANGED <<grid_size, max_steps, exits, emergency_time, clock, monitor_triggered, emergency,
                   active_agents, pos, emergency_triggered, direction, state,
                   following_agent, follow_start_time, asked_memory, snapshot, idx,
                   steps, evac_steps, error, stepped, follow_pool>>

\* wall-clock time passes between two steps, ClockQuantum seconds at a time
ClockAdvance ==
    /\ pc # "done" /\ ~error
    /\ clock - StartTime < MaxElapsed
    /\ clock' = clock + ClockQuantum
    /\ UNCHANGED <<grid_size, max_steps, exits, emergency_time, monitor_triggered, emergency,
                   active_agents, pos, emergency_triggered, direction, state,
                   following_agent, follow_start_time, asked_memory, pc, snapshot,
                   idx, steps, evac_steps, error, stepped, follow_pool>>

Next ==
    \/ BeginStep
    \/ \E a \in Agents : WanderStep(a)
    \/ \E a \in Agents : EvacuateStep(a)
    \/ \E a \in Agents : EvacuateError(a)
    \/ \E a \in Agents : FollowStep(a)
    \/ \E a \in Agents : HelpFollowStep(a)
    \/ \E a \in Agents : HelpWanderStep(a)
    \/ EndStep
    \/ Finish
    \/ ClockAdvance

Spec == Init /\ [][Next]_vars


\* ------------------------------------------------------------ properties
Pool == Range(active_agents)
IsPrefix(s, t) == Len(s) <= Len(t) /\ s = SubSeq(t, 1, Len(s))
\* the for loop of GridModel.step is running and has an evacuee left to step
TickInProgress == pc = "stepping" /\ ~error /\ LoopMore

\* C1: every evacuee of the active pool stands on a cell of the grid,
\* 0 <= x < grid_size and 0 <= y < grid_size, after every evacuee step.
C1_Boundedness ==
    \A a \in Pool :
        /\ pos[a] # NoPos
        /\ 0 <= pos[a][1] /\ pos[a][1] < grid_size
        /\ 0 <= pos[a][2] /\ pos[a][2] < grid_size

\* an evacuee walking in its constant direction has reached the wall it faces
C1_Witness ==
    \E a \in Pool :
        /\ emergency_triggered[a]
        /\ state[a] = "HELP"
        /\ direction[a] # NoDir
        /\ out_of_bounds(<<pos[a][1] + direction[a][1], pos[a][2] + direction[a][2]>>)

\* C2: after every completed tick no two evacuees of the active pool share a cell.
C2_SingleOccupancy ==
    pc = "idle" => \A a, b \in Pool : a # b => pos[a] # pos[b]

\* a post-trigger tick has completed with two evacuees on adjacent cells
C2_Witness ==
    /\ pc = "idle" /\ steps > 0 /\ monitor_triggered
    /\ \E a, b \in Pool : a # b /\ Manhattan(pos[a], pos[b]) = 1

\* C3: an evacuee that left the active pool holds no cell, is never the next
\* evacuee to step, and never enters the pool again.
C3_ExitIdempotence ==
    /\ [](\A a \in Agents \ Pool :
             /\ pos[a] = NoPos
             /\ TickInProgress => Current # a)
    /\ [][\A a \in Agents \ Pool : a \notin Range(active_agents')]_vars

\* an evacuee that was created has left through an exit in an earlier tick:
\* it is off the grid, out of the pool and not in the snapshot of the tick
\* now in progress, in which another evacuee has yet to step
C3_Witness ==
    /\ TickInProgress /\ steps >= 1
    /\ \E a \in 1..NumAgents : /\ a \notin Pool
                               /\ pos[a] = NoPos
                               /\ a \notin Range(snapshot)

\* C4 as claimed: while evacuees of the tick's snapshot still have to step,
\* every evacuee of the snapshot is still in the grid and in the active pool
\* (an evacuee that arrived at an exit is only marked and leaves both after
\* the last step of the tick).
C4_DeferredRemoval ==
    TickInProgress => \A a \in Range(snapshot) : a \in Pool /\ pos[a] # NoPos

\* C5: the steps invoked in a tick are the pool of the tick's start, in pool
\* order, each once: a prefix of it while the tick runs, all of it at its end.
C5_EachSteppedOnce ==
    /\ IsPrefix(stepped, snapshot)
    /\ (pc = "stepping" /\ ~LoopMore) => stepped = snapshot
    /\ pc = "idle" => stepped = snapshot

\* the first evacuee of the snapshot left the pool and the last one still stepped
C5_Witness ==
    /\ pc = "stepping" /\ ~LoopMore /\ ~error
    /\ Len(snapshot) = NumAgents /\ NumAgents > 1
    /\ snapshot[1] \notin Pool
    /\ stepped = snapshot

\* C6 as claimed: no evacuee step raises; an evacuee about to dispatch in
\* state EVACUATING has an exit within the visibility radius.
C6_EvacuatingSeesExit ==
    /\ ~error
    /\ TickInProgress /\ emergency_triggered[Current] /\ pos[Current] # NoPos
          /\ DispatchState(Current) = "EVACUATING"
       => VisibleOf(Current) # <<>>

\* C7: between evacuee steps every active evacuee's emergency_triggered equals
\* the monitor's flag, and neither flag ever goes back to false.
C7_MonotonicTrigger ==
    /\ [](\A a \in Pool : emergency_triggered[a] = monitor_triggered)
    /\ [](emergency = monitor_triggered)
    /\ [][/\ monitor_triggered => monitor_triggered'
          /\ \A a \in Agents : emergency_triggered[a] => emergency_triggered'[a]]_vars

\* the monitor fired after a positive delay with the whole pool present
C7_Witness ==
    /\ monitor_triggered /\ emergency_time > 0
    /\ Len(active_agents) = NumAgents /\ NumAgents > 1
    /\ \A a \in Pool : emergency_triggered[a]

\* C8: a FOLLOWING evacuee's following_agent is set, is another evacuee, and
\* was in the active pool when this evacuee last went from HELP to FOLLOWING.
C8_FollowValidity ==
    \A a \in Agents :
        state[a] = "FOLLOWING" =>
            /\ following_agent[a] # NoAgent
            /\ following_agent[a] # a
            /\ following_agent[a] \in Range(follow_pool[a])

\* a FOLLOWING evacuee whose guide has left the pool since the transition
C8_Witness ==
    \E a \in Pool :
        /\ state[a] = "FOLLOWING"
        /\ following_agent[a] \notin Pool

\* C9: no step adds to the active pool: it never grows and gains no member.
C9_PoolNeverGrows ==
    [][/\ Len(active_agents') <= Len(active_agents)
       /\ Range(active_agents') \subseteq Pool]_vars

\* an evacuee has left the pool
C9_Witness ==
    /\ Len(active_agents) < NumAgents
    /\ pc = "idle"

\* C10 as claimed: with the emergency triggered on the first tick and exits
\* in two opposite corners, a run that has ended has emptied the pool and
\* reports a step count not above the cap (ticks are counted from 0, and the
\* two evacuees of the model can both leave in the first one).
RunEnded == pc = "done" \/ error
C10_AllEvacuated ==
    (emergency_time = 0 /\ exits = exit_positions /\ RunEnded) =>
        /\ active_agents = <<>>
        /\ evac_steps # <<>>
        /\ evac_steps[1] \in 0..max_steps

\* ------------------------------------------------- the grid without exits
\* spec-modelled: the constructor takes the exit positions; here it is given
\* none, and places the evacuees on any distinct cells; the driver's loop
\* is given the tick cap ShortMaxSteps

InitNoExits ==
    /\ grid_size = SmallGridSize
    /\ max_steps = ShortMaxSteps
    /\ exits = <<>>
    /\ emergency_time \in 0..MaxEmergencyTime
    /\ clock = StartTime
    /\ monitor_triggered = FALSE
    /\ emergency = FALSE
    /\ active_agents = [i \in 1..NumAgents |-> i]
    /\ pos \in Placements(NumAgents, Cells)
    /\ emergency_triggered = [a \in Agents |-> FALSE]
    /\ direction = [a \in Agents |-> NoDir]
    /\ state = [a \in Agents |-> "HELP"]
    /\ following_agent = [a \in Agents |-> NoAgent]
    /\ follow_start_time = [a \in Agents |-> 0]
    /\ asked_memory = [a \in Agents |-> <<>>]
    /\ pc = "idle"
    /\ snapshot = <<>>
    /\ idx = 1
    /\ steps = 0
    /\ evac_steps = <<>>
    /\ error = FALSE
    /\ stepped = <<>>
    /\ follow_pool = [a \in Agents |-> <<>>]

\* the branches of EvacAgent.step that need an exit or a guide
ExitBranch(a) ==
    EvacuateStep(a) \/ EvacuateError(a) \/ FollowStep(a) \/ HelpFollowStep(a)

\* the steps that can be taken without exits; C11 shows that the branches
\* left out are never enabled
NextNoExits ==
    \/ BeginStep
    \/ \E a \in Agents : WanderStep(a)
    \/ \E a \in Agents : HelpWanderStep(a)
    \/ EndStep
    \/ Finish
    \/ ClockAdvance

SpecNoExits == InitNoExits /\ [][NextNoExits]_vars

\* C11: on a grid with no exits no evacuee is ever removed or enters
\* EVACUATING or FOLLOWING: the pool stays the initial pool, every evacuee
\* stays in HELP with no guide, no step takes the evacuating or following
\* branch, running stays true, the run ends only at the tick cap and the
\* evacuation step count stays unset
C11_NoExitsNoEvacuation ==
    exits = <<>> =>
        /\ active_agents = [i \in 1..NumAgents |-> i]
        /\ \A a \in 1..NumAgents : pos[a] \in Cells
        /\ \A a \in Agents : /\ state[a] = "HELP"
                             /\ following_agent[a] = NoAgent
                             /\ ~ENABLED ExitBranch(a)
        /\ running
        /\ ~error
        /\ evac_steps = <<>>
        /\ get_evacuation_steps(steps) = <<>>
        /\ (pc = "done" => steps = max_steps)

\* the run reached the cap after the alarm, and one evacuee asked the other
C11_Witness ==
    /\ exits = <<>>
    /\ pc = "done" /\ steps = max_steps
    /\ emergency
    /\ \E a \in Agents : asked_memory[a] # <<>>
    /\ active_agents = [i \in 1..NumAgents |-> i]

\* ------------------------------------------------------ steps of evacuees
\* the step of evacuee a is the transition taken
StepTaken(a) == pc = "stepping" /\ LoopMore /\ Current = a /\ idx' = idx + 1
PostTrigger(a) == emergency_triggered[a]

\* where the evacuating branch puts an evacuee standing on p
EvacuateDest(p) ==
    LET t == closest_exit(p, get_visible_exits(p))
        c == move_towards(p, t)
    IN  IF c # NoPos THEN c ELSE best_free_step_towards_exit(p, t)

\* C12: a post-trigger step of an evacuee that has an exit in its radius-3
\* box ends with the evacuee removed or in EVACUATING with no guide, whatever
\* its state was; the step scans no neighbours (asked_memory and
\* follow_start_time are untouched) and its only move is the one toward the
\* closest visible exit
C12_ExitVisibilityWins ==
    [][\A a \in Agents :
         (StepTaken(a) /\ PostTrigger(a) /\ VisibleOf(a) # <<>>) =>
            /\ \/ a \notin Range(active_agents')
               \/ state'[a] = "EVACUATING" /\ following_agent'[a] = NoAgent
            /\ asked_memory'[a] = asked_memory[a]
            /\ follow_start_time'[a] = follow_start_time[a]
            /\ ~error'
            /\ LET dest == EvacuateDest(pos[a])
               IN  pos'[a] = IF dest = NoPos THEN pos[a]
                             ELSE IF is_exit_cell(dest) THEN NoPos ELSE dest
    ]_vars

\* an evacuee that once followed a guide is now evacuating on its own
C12_Witness ==
    \E a \in Agents : /\ a \in Range(active_agents)
                      /\ follow_start_time[a] # 0
                      /\ state[a] = "EVACUATING"
                      /\ following_agent[a] = NoAgent
                      /\ a \in Range(stepped)

\* evacuee a is the next to step, after the alarm
AboutToStep(a) == pc = "stepping" /\ ~error /\ LoopMore /\ Current = a /\ PostTrigger(a)

\* C13: a follow whose guide has left the active pool, or that has lasted
\* more than 10 seconds, is given up (HELP, no guide) before the dispatch, so
\* the following branch only ever reads the position of a guide that is in
\* the pool and on the grid; the step then goes on as a HELP step: it ends in
\* HELP with no guide after a wandering step, or in place with a guide newly
\* chosen among the active evacuees
C13_DanglingFollowUnused ==
    /\ [](\A a \in Agents :
            (AboutToStep(a) /\ DispatchState(a) = "FOLLOWING") =>
               /\ DispatchTarget(a) \in Range(active_agents)
               /\ pos[DispatchTarget(a)] \in Cells)
    /\ [][\A a \in Agents :
            (/\ StepTaken(a) /\ PostTrigger(a)
             /\ state[a] = "FOLLOWING" /\ VisibleOf(a) = <<>>
             /\ \/ following_agent[a] \notin Range(active_agents)
                \/ clock - follow_start_time[a] > FollowTimeout) =>
               \/ /\ state'[a] = "HELP"
                  /\ following_agent'[a] = NoAgent
                  /\ pos'[a] \in Cells /\ Manhattan(pos'[a], pos[a]) <= 1
               \/ /\ state'[a] = "FOLLOWING"
                  /\ following_agent'[a] \in Range(active_agents)
                  /\ follow_start_time'[a] = clock' /\ clock' >= clock
                  /\ pos'[a] = pos[a]
       ]_vars

\* the guide has left through an exit within the timeout, and the follower,
\* alone in the pool, is back in HELP with no guide
C13_Witness ==
    \E a \in Agents : /\ active_agents = <<a>>
                      /\ state[a] = "HELP"
                      /\ following_agent[a] = NoAgent
                      /\ follow_start_time[a] # 0
                      /\ clock - follow_start_time[a] <= FollowTimeout
                      /\ Len(follow_pool[a]) = NumAgents

\* the active evacuees in the Moore radius-5 neighbourhood of a that a has
\* not asked within the cooldown
Askable(a) ==
    {n \in Range(active_agents) \ {a} :
        /\ pos[n] \in Cells /\ pos[n] # pos[a]
        /\ Abs(pos[n][1] - pos[a][1]) <= AskRadius
        /\ Abs(pos[n][2] - pos[a][2]) <= AskRadius
        /\ clock - MemGet(asked_memory[a], n) > COOLDOWN}
\* those of them that have an exit in their own radius-3 box
Guides(a) == {n \in Askable(a) : get_visible_exits(pos[n]) # <<>>}

\* the cell one step along direction d from p
Ahead(p, d) == <<p[1] + d[1], p[2] + d[2]>>

\* C14: a post-trigger step of an evacuee in HELP that sees no exit: if some
\* askable neighbour sees an exit the step ends in FOLLOWING, the guide is
\* such a neighbour, the follow starts at the time read after the scan and
\* the position is unchanged;
\* otherwise the evacuee stays in HELP and makes one constant-direction
\* wandering step: one cell along its direction (a fresh one if it had
\* none), or no move and a fresh direction when that cell is blocked
C14_GuideSelection ==
       [][\A a \in Agents :
            (StepTaken(a) /\ PostTrigger(a) /\ state[a] = "HELP" /\ VisibleOf(a) = <<>>) =>
               IF Guides(a) # {}
               THEN /\ state'[a] = "FOLLOWING"
                    /\ following_agent'[a] \in Guides(a)
                    /\ follow_start_time'[a] = clock' /\ clock' >= clock
                    /\ pos'[a] = pos[a]
                    /\ direction'[a] = direction[a]
                    /\ active_agents' = active_agents
               ELSE /\ state'[a] = "HELP"
                    /\ follow_start_time'[a] = follow_start_time[a]
                    /\ active_agents' = active_agents
                    /\ direction'[a] \in Range(directions)
                    /\ \/ /\ pos'[a] = Ahead(pos[a], direction'[a])
                          /\ direction[a] \in {NoDir, direction'[a]}
                          /\ pos'[a] \in Cells /\ CellEmpty(pos'[a])
                       \/ /\ pos'[a] = pos[a]
                          /\ direction[a] # NoDir =>
                               LET c == Ahead(pos[a], direction[a])
                               IN  out_of_bounds(c) \/ ~CellEmpty(c)
       ]_vars

\* the Chebyshev distance of mesa's Moore neighbourhood
Chebyshev(p, q) ==
    IF Abs(p[1] - q[1]) >= Abs(p[2] - q[2]) THEN Abs(p[1] - q[1]) ELSE Abs(p[2] - q[2])

\* out of range: an evacuee that sees no exit and never followed anyone has
\* just scanned and made its wandering step, still in HELP with no guide,
\* although an active evacuee that has yet to step sees an exit: that one is
\* more than 5 cells away and the scan did not reach it (it was never asked)
C14_Witness ==
    \E a, n \in Range(active_agents) :
        /\ pc = "stepping" /\ stepped # <<>> /\ stepped[Len(stepped)] = a
        /\ emergency_triggered[a]
        /\ VisibleOf(a) = <<>>
        /\ state[a] = "HELP" /\ following_agent[a] = NoAgent
        /\ follow_start_time[a] = 0
        /\ direction[a] # NoDir
        /\ n # a /\ n \notin Range(stepped)
        /\ HasVisibleExits(n)
        /\ Chebyshev(pos[n], pos[a]) > AskRadius
        /\ n \notin DOMAIN asked_memory[a]

\* ------------------------------------------------------- the wider grid
\* the smallest grid on which two cells can be out of asking range; C14 is
\* checked on it, where a neighbour that sees an exit can be too far to ask
WideGridSize == AskRadius + 2

\* GridModel(grid_size=WideGridSize, emergency_time=0): the two corner exits
\* of the constructor, the evacuees on any distinct empty cells, the alarm
\* due on the first tick; the driver's loop is given the cap WideMaxSteps
InitWide ==
    /\ grid_size = WideGridSize
    /\ max_steps = WideMaxSteps
    /\ exits = exit_positions
    /\ emergency_time = 0
    /\ clock = StartTime
    /\ monitor_triggered = FALSE
    /\ emergency = FALSE
    /\ active_agents = [i \in 1..NumAgents |-> i]
    /\ pos \in Placements(NumAgents, Cells \ Range(exit_positions))
    /\ emergency_triggered = [a \in Agents |-> FALSE]
    /\ direction = [a \in Agents |-> NoDir]
    /\ state = [a \in Agents |-> "HELP"]
    /\ following_agent = [a \in Agents |-> NoAgent]
    /\ follow_start_time = [a \in Agents |-> 0]
    /\ asked_memory = [a \in Agents |-> <<>>]
    /\ pc = "idle"
    /\ snapshot = <<>>
    /\ idx = 1
    /\ steps = 0
    /\ evac_steps = <<>>
    /\ error = FALSE
    /\ stepped = <<>>
    /\ follow_pool = [a \in Agents |-> <<>>]

\* the runs of the program on either grid: GridModel() and
\* GridModel(grid_size=WideGridSize, emergency_time=0)
SpecWide == (Init \/ InitWide) /\ [][Next]_vars

\* a asked n COOLDOWN seconds ago or less
AskedRecently(a, n) ==
    n \in DOMAIN asked_memory[a] /\ clock - asked_memory[a][n] <= COOLDOWN
\* the active evacuees in the Moore radius-5 neighbourhood of a
InAskRange(a) ==
    {n \in Range(active_agents) \ {a} :
        /\ pos[n] \in Cells /\ pos[n] # pos[a]
        /\ Abs(pos[n][1] - pos[a][1]) <= AskRadius
        /\ Abs(pos[n][2] - pos[a][2]) <= AskRadius}
\* the step of a is one that runs ask_neighbors
ScanStep(a) == StepTaken(a) /\ PostTrigger(a) /\ DispatchState(a) = "HELP"

\* C15: a neighbour asked 3 seconds ago or less is neither taken as guide
\* nor recorded again; a neighbour in range that is not under cooldown, one
\* never asked included, is taken as guide if it sees an exit and, when the
\* scan examines it, is recorded at the scan time whether or not it becomes
\* the guide; entries of asked_memory are never deleted, change only to the
\* current time and never decrease
C15_AskCooldown ==
    [][\A a \in Agents :
         /\ \A n \in DOMAIN asked_memory[a] :
               /\ n \in DOMAIN asked_memory'[a]
               /\ asked_memory'[a][n] >= asked_memory[a][n]
         /\ \A n \in DOMAIN asked_memory'[a] :
               (n \notin DOMAIN asked_memory[a] \/ asked_memory'[a][n] # asked_memory[a][n])
                  => /\ asked_memory'[a][n] = clock
                     /\ ScanStep(a) /\ n \in InAskRange(a)
         /\ \A n \in Agents :
               AskedRecently(a, n) =>
                  /\ asked_memory'[a][n] = asked_memory[a][n]
                  /\ ~(ScanStep(a) /\ state'[a] = "FOLLOWING" /\ following_agent'[a] = n)
         /\ ScanStep(a) =>
               LET fresh == {n \in InAskRange(a) : ~AskedRecently(a, n)}
               IN  IF state'[a] = "FOLLOWING"
                   THEN /\ following_agent'[a] \in fresh
                        /\ asked_memory'[a][following_agent'[a]] = clock
                   ELSE \A n \in fresh : /\ n \in DOMAIN asked_memory'[a]
                                         /\ asked_memory'[a][n] = clock
                                         /\ get_visible_exits(pos[n]) = <<>>
    ]_vars

\* an evacuee that never followed anyone has just ended a step in HELP
\* although the other evacuee sees an exit: it asked that evacuee within the
\* cooldown, when it saw none
C15_Witness ==
    \E a \in Agents, n \in Agents :
        /\ stepped # <<>> /\ stepped[Len(stepped)] = a
        /\ PostTrigger(a)
        /\ state[a] = "HELP" /\ follow_start_time[a] = 0
        /\ n \in Range(active_agents) /\ n # a
        /\ get_visible_exits(pos[n]) # <<>>
        /\ AskedRecently(a, n)

\* no tick is under way: the driver is between two calls of model.step()
TickCompleted == pc \in {"idle", "done"}

\* C16: at the end of every completed tick every active evacuee stands on a
\* cell of the grid that is not an exit cell; an evacuee leaves the pool only
\* by its own step, from a cell next to an exit, and it leaves the grid in
\* that same step
C16_NoActiveOnExit ==
    /\ [](TickCompleted =>
            \A a \in Range(active_agents) :
               pos[a] \in Cells /\ pos[a] \notin Range(exits))
    /\ [][\A a \in Range(active_agents) :
            a \notin Range(active_agents') =>
               /\ StepTaken(a)
               /\ pos'[a] = NoPos
               /\ \E e \in Range(exits) : Manhattan(e, pos[a]) = 1
       ]_vars

\* a tick has completed in which one evacuee left through an exit while
\* another is still on the grid
C16_Witness ==
    /\ pc = "idle" /\ steps >= 1
    /\ stepped # <<>>
    /\ \E a \in Range(stepped) : a \notin Range(active_agents) /\ pos[a] = NoPos
    /\ active_agents # <<>>

\* --------------------------------------------- one evacuee on an exit cell
\* the exit placements of the batch driver, computed from the module
\* constant GRID_SIZE
placements ==
    { << <<0, 0>>, <<GridSize - 1, GridSize - 1>> >>,
      << <<0, GridSize \div 2>>, <<GridSize - 1, GridSize \div 2>> >>,
      << <<0, 0>>, <<GridSize - 1, 0>> >>,
      << <<GridSize \div 2, GridSize \div 2>> >> }

\* spec-modelled: the scenario of one evacuee that stands on an exit cell
\* when the run starts, with the alarm due on the first tick; the other
\* evacuees of the model do not exist
InitOnExit ==
    /\ grid_size = GridSize
    /\ max_steps = MaxSteps
    /\ exits \in placements
    /\ emergency_time = 0
    /\ clock = StartTime
    /\ monitor_triggered = FALSE
    /\ emergency = FALSE
    /\ active_agents = <<1>>
    /\ pos \in Placements(1, Range(exits))
    /\ emergency_triggered = [a \in Agents |-> FALSE]
    /\ direction = [a \in Agents |-> NoDir]
    /\ state = [a \in Agents |-> "HELP"]
    /\ following_agent = [a \in Agents |-> NoAgent]
    /\ follow_start_time = [a \in Agents |-> 0]
    /\ asked_memory = [a \in Agents |-> <<>>]
    /\ pc = "idle"
    /\ snapshot = <<>>
    /\ idx = 1
    /\ steps = 0
    /\ evac_steps = <<>>
    /\ error = FALSE
    /\ stepped = <<>>
    /\ follow_pool = [a \in Agents |-> <<>>]

\* the branches of EvacAgent.step other than the evacuating one
OtherBranch(a) ==
    \/ WanderStep(a) \/ EvacuateError(a) \/ FollowStep(a)
    \/ HelpFollowStep(a) \/ HelpWanderStep(a)

\* the steps of a run in which every step is an evacuating one; C17 shows
\* that the branches left out are never enabled
NextEvacuating ==
    \/ BeginStep
    \/ \E a \in Agents : EvacuateStep(a)
    \/ EndStep
    \/ Finish
    \/ ClockAdvance

SpecOnExit == InitOnExit /\ [][NextEvacuating]_vars

\* C17: a single evacuee that stands on an exit cell when the alarm is given
\* on the first tick is out of the pool once its second step is over, the
\* evacuation step count is set by the end of the second tick and is at most
\* 1, the later ticks of the run (the driver goes on to the cap) step nobody,
\* and no step takes a branch other than the evacuating one or raises an
\* error
C17_OnExitLeavesByTickOne ==
    /\ (steps >= 2 \/ (steps = 1 /\ pc = "stepping" /\ ~LoopMore)) =>
          active_agents = <<>> /\ pos[1] = NoPos
    /\ evac_steps # <<>> => evac_steps[1] <= 1
    /\ steps >= 2 => evac_steps # <<>> /\ (pc = "stepping" => snapshot = <<>>)
    /\ pc = "done" => evac_steps # <<>> /\ active_agents = <<>> /\ steps = max_steps
    /\ ~error
    /\ \A a \in Agents : ~ENABLED OtherBranch(a)

\* the run has ended at the cap after the evacuee left in its second step
C17_Witness ==
    /\ pc = "done"
    /\ pos[1] = NoPos /\ active_agents = <<>>
    /\ steps = max_steps
    /\ evac_steps = <<1>>
    /\ state[1] = "EVACUATING"

\* ------------------------------------------------------- the crowded start
\* the largest grid on which every cell has a corner exit in its radius-3
\* box, so that every evacuee evacuates from the alarm on
CrowdGridSize == VisibleRadius + 1

\* GridModel(grid_size=CrowdGridSize) with NUM_AGENTS = CrowdAgents: the two
\* corner exits, the evacuees on any distinct empty cells; the driver's loop
\* is given the tick cap ShortMaxSteps
InitCrowd ==
    /\ grid_size = CrowdGridSize
    /\ max_steps = ShortMaxSteps
    /\ exits = exit_positions
    /\ emergency_time \in 0..MaxEmergencyTime
    /\ clock = StartTime
    /\ monitor_triggered = FALSE
    /\ emergency = FALSE
    /\ active_agents = [i \in 1..CrowdAgents |-> i]
    /\ pos \in Placements(CrowdAgents, Cells \ Range(exit_positions))
    /\ emergency_triggered = [a \in Agents |-> FALSE]
    /\ direction = [a \in Agents |-> NoDir]
    /\ state = [a \in Agents |-> "HELP"]
    /\ following_agent = [a \in Agents |-> NoAgent]
    /\ follow_start_time = [a \in Agents |-> 0]
    /\ asked_memory = [a \in Agents |-> <<>>]
    /\ pc = "idle"
    /\ snapshot = <<>>
    /\ idx = 1
    /\ steps = 0
    /\ evac_steps = <<>>
    /\ error = FALSE
    /\ stepped = <<>>
    /\ follow_pool = [a \in Agents |-> <<>>]

\* the branches of EvacAgent.step for an evacuee that sees no exit
BlindBranch(a) ==
    EvacuateError(a) \/ FollowStep(a) \/ HelpFollowStep(a) \/ HelpWanderStep(a)

\* the steps of a run in which every cell sees an exit; C18 shows that the
\* branches left out are never enabled
NextCrowd ==
    \/ BeginStep
    \/ \E a \in Agents : WanderStep(a)
    \/ \E a \in Agents : EvacuateStep(a)
    \/ EndStep
    \/ Finish
    \/ ClockAdvance

SpecCrowd == InitCrowd /\ [][NextCrowd]_vars

\* the orthogonal neighbours of p that are on the grid and hold no agent
FreeNeighbours(p) ==
    {c \in Cells : Manhattan(c, p) = 1 /\ AgentsAt(c) = {} /\ c \notin Range(exits)}
\* every greedy candidate from p toward t holds an evacuee or is off the grid
GreedyBlocked(p, t) ==
    \A i \in 1..Len(move_options(p, t)) :
        LET c == move_options(p, t)[i]
        IN  c \notin Cells \/ (AgentsAt(c) # {} /\ c \notin Range(exits))

\* C18: when every greedy candidate of an evacuating evacuee is blocked, its
\* step moves it to a free orthogonal neighbour whose Manhattan distance to
\* the target exit is minimal among the free ones, or moves nothing if none
\* is free; it removes nobody, raises no error and changes nothing else (an
\* evacuee that was already EVACUATING keeps every field but its position);
\* after the alarm no step takes a branch other than the evacuating one
C18_FallbackStep ==
    /\ [](\A a \in Agents : ~ENABLED BlindBranch(a))
    /\ [][\A a \in Agents :
            (/\ StepTaken(a) /\ PostTrigger(a) /\ VisibleOf(a) # <<>>
             /\ GreedyBlocked(pos[a], closest_exit(pos[a], VisibleOf(a)))) =>
               LET t == closest_exit(pos[a], VisibleOf(a))
                   free == FreeNeighbours(pos[a])
               IN  /\ IF free = {} THEN pos'[a] = pos[a]
                      ELSE /\ pos'[a] \in free
                           /\ \A c \in free : Manhattan(pos'[a], t) <= Manhattan(c, t)
                   /\ \A b \in Agents \ {a} : pos'[b] = pos[b]
                   /\ active_agents' = active_agents
                   /\ ~error'
                   /\ state'[a] = "EVACUATING" /\ following_agent'[a] = NoAgent
                   /\ state[a] = "EVACUATING" =>
                         state' = state /\ following_agent' = following_agent
                   /\ UNCHANGED <<direction, asked_memory, follow_start_time, exits>>
       ]_vars

\* an evacuating evacuee has just stepped with an evacuee on every
\* orthogonal neighbour cell of the grid: it stayed where it was
C18_Witness ==
    \E a \in Range(active_agents) :
        /\ pc = "stepping"
        /\ stepped # <<>> /\ stepped[Len(stepped)] = a
        /\ state[a] = "EVACUATING"
        /\ ~error
        /\ \A c \in Cells : Manhattan(c, pos[a]) = 1 => AgentsAt(c) # {}

\* C19: before the alarm only positions change. The pool is the initial
\* pool, every evacuee is in HELP with no guide, an empty asked_memory, no
\* direction and no follow start, and stands on a cell that is not an exit
\* cell; a step of an evacuee moves it to an orthogonal neighbour cell that
\* held no evacuee and no exit, or leaves it in place when there is no such
\* cell, and changes nothing else
C19_PreTriggerFrame ==
    /\ [](~emergency =>
            /\ active_agents = [i \in 1..Len(active_agents) |-> i]
            /\ \A a \in Agents : a \in Range(active_agents) <=> pos[a] # NoPos
            /\ ~error /\ evac_steps = <<>>
            /\ \A a \in Range(active_agents) :
                  /\ ~emergency_triggered[a]
                  /\ state[a] = "HELP" /\ following_agent[a] = NoAgent
                  /\ asked_memory[a] = <<>>
                  /\ direction[a] = NoDir /\ follow_start_time[a] = 0
                  /\ pos[a] \in Cells /\ pos[a] \notin Range(exits))
    /\ [][\A a \in Agents :
            (StepTaken(a) /\ ~PostTrigger(a)) =>
               /\ IF FreeNeighbours(pos[a]) = {} THEN pos'[a] = pos[a]
                  ELSE pos'[a] \in FreeNeighbours(pos[a])
               /\ \A b \in Agents \ {a} : pos'[b] = pos[b]
               /\ UNCHANGED <<active_agents, state, following_agent, asked_memory,
                              direction, follow_start_time, emergency_triggered,
                              emergency, error, evac_steps, exits>>
       ]_vars

\* before the alarm, in the second tick or later, an evacuee next to an exit
\* has just stepped and stands where every neighbour cell is taken: it stayed
C19_Witness ==
    /\ ~emergency /\ pc = "stepping"
    /\ steps >= 1
    /\ stepped # <<>>
    /\ \E e \in Range(exits) : Manhattan(e, pos[stepped[Len(stepped)]]) = 1
    /\ FreeNeighbours(pos[stepped[Len(stepped)]]) = {}

\* C20 as claimed: in every state between two evacuee steps an evacuee has a
\* guide only while it is FOLLOWING; in HELP and in EVACUATING, also after a
\* follower gave up a guide more than 5 cells away, following_agent is unset
C20_TargetOnlyWhenFollowing ==
    \A a \in Agents : following_agent[a] # NoAgent => state[a] = "FOLLOWING"

====
